---- MODULE Spec2Model ----
(***************************************************************************)
(* A model of zim2obs.py: the mapping of a Zim notebook directory to an    *)
(* Obsidian vault (map_zim_dir_to_obsidian_dir, make_unique_string), the   *)
(* migration driver (migrate_zim_to_obsidian) and the link and embed       *)
(* resolution of translate_line.                                           *)
(*                                                                         *)
(* A string is a sequence of one-character strings, so that slicing,       *)
(* searching and replacing are computed as the Python code computes them.  *)
(* A path is the sequence of its parts, as pathlib's Path.parts; a rooted  *)
(* path has the anchor Anchor as its first part.  The program is written   *)
(* for Windows (test_aaatest), where both "/" and "\" separate parts.      *)
(***************************************************************************)
EXTENDS Integers, Sequences, FiniteSets, TLC

VARIABLES
    \* make_unique_string: its arguments, its local, the candidates it has
    \* found taken, and its position
    existing_names, requested_name, proposed_filename, tried, upc,
    \* the source notebook: the folders and files under zim_dir (paths
    \* relative to it) and the files whose first lines are a Zim header
    zim_folders, zim_files, zim_pages,
    \* the arguments of map_zim_dir_to_obsidian_dir
    obs_dir, ignore_extensions, use_folder_notes, use_global_attachments,
    \* its dictionaries, each a sequence of entries in insertion order
    folder_map, note_map, file_map,
    \* os.walk: the directories still to visit (a stack of sets of siblings),
    \* the directory being visited, its files not yet handled
    walk_stack, walkroot, files_todo,
    \* the vault: the directories made, the files written (each with the
    \* source file its content comes from)
    obs_folders, obs_files,
    \* migrate_zim_to_obsidian: how far its three loops are, the lines of
    \* the page still to translate, the call of translate_line that has
    \* just returned or raised
    folder_i, copy_i, note_i, lines_left, call,
    \* translate_file on a page with code blocks: the list lines (for each
    \* line what it starts with and what it holds now), the index i, and
    \* the lines handed to translate_line so far, in the order of the calls
    lines, line_i, passed,
    \* position of the run
    pc

uvars == <<existing_names, requested_name, proposed_filename, tried, upc>>
zvars == <<zim_folders, zim_files, zim_pages>>
avars == <<obs_dir, ignore_extensions, use_folder_notes, use_global_attachments>>
mvars == <<folder_map, note_map, file_map>>
wvars == <<walk_stack, walkroot, files_todo>>
gvars == <<obs_folders, obs_files, folder_i, copy_i, note_i, lines_left, call>>
fvars == <<lines, line_i, passed>>
vars == <<uvars, zvars, avars, mvars, wvars, gvars, fvars, pc>>

----------------------------------------------------------------------------
(* Bounds of the model *)

\* longest requested name make_unique_string is run on
MaxLen == 3
\* number of successive candidates that may already exist
MaxExisting == 3

----------------------------------------------------------------------------
(* Strings *)

Digits == {"0", "1", "2", "3", "4", "5", "6", "7", "8", "9"}

IsDigit(c) == c \in Digits

DigitVal(c) ==
    CASE c = "0" -> 0 [] c = "1" -> 1 [] c = "2" -> 2 [] c = "3" -> 3
      [] c = "4" -> 4 [] c = "5" -> 5 [] c = "6" -> 6 [] c = "7" -> 7
      [] c = "8" -> 8 [] c = "9" -> 9

DigitChar(n) ==
    CASE n = 0 -> "0" [] n = 1 -> "1" [] n = 2 -> "2" [] n = 3 -> "3"
      [] n = 4 -> "4" [] n = 5 -> "5" [] n = 6 -> "6" [] n = 7 -> "7"
      [] n = 8 -> "8" [] n = 9 -> "9"

\* int(s) of a run of decimal digits
RECURSIVE IntOf(_)
IntOf(s) ==
    IF s = <<>> THEN 0
    ELSE 10 * IntOf(SubSeq(s, 1, Len(s) - 1)) + DigitVal(s[Len(s)])

\* str(n) of a natural number
RECURSIVE StrOf(_)
StrOf(n) ==
    IF n < 10 THEN <<DigitChar(n)>>
    ELSE Append(StrOf(n \div 10), DigitChar(n % 10))

Min(S) == CHOOSE x \in S : \A y \in S : x <= y
Max(S) == CHOOSE x \in S : \A y \in S : y <= x

\* s[i:] and s[:i] of Python, i counted from 0
From(s, i) == SubSeq(s, i + 1, Len(s))
UpTo(s, i) == SubSeq(s, 1, i)

StartsWith(s, p) == Len(p) <= Len(s) /\ SubSeq(s, 1, Len(p)) = p

\* s.rfind(c) of Python as a 1-based position, 0 when c is absent
RFind(s, cs) ==
    LET P == {i \in 1..Len(s) : s[i] \in cs} IN IF P = {} THEN 0 ELSE Max(P)

\* "".join over a sequence of strings
RECURSIVE Concat(_)
Concat(ss) == IF ss = <<>> THEN <<>> ELSE Head(ss) \o Concat(Tail(ss))

\* all strings over the alphabet A of length 0..n
RECURSIVE StringsUpTo(_, _)
StringsUpTo(A, n) ==
    IF n = 0 THEN {<<>>}
    ELSE LET S == StringsUpTo(A, n - 1)
         IN S \cup {Append(s, c) : s \in {t \in S : Len(t) = n - 1}, c \in A}

----------------------------------------------------------------------------
(* make_unique_string, zim2obs.py 37-57 *)

Seps == {"/", "\\"}

\* the regular expression (.*?)(\d+)(\..+) matched with the digit run at
\* position p and of length k: k digits, a dot, and at least one more
\* character (there is no newline in a file name)
DigitsMatch(s, p, k) ==
    /\ k >= 1
    /\ p + k + 1 <= Len(s)
    /\ \A i \in p..(p + k - 1) : IsDigit(s[i])
    /\ s[p + k] = "."

\* re.findall(...)[0]: the search starts at the first character, the lazy
\* (.*?) stops at the first position where the rest matches, and the greedy
\* (\d+) takes the longest run; <<>> when nothing matches
final_digits(s) ==
    LET P == {p \in 1..Len(s) : \E k \in 1..Len(s) : DigitsMatch(s, p, k)}
    IN IF P = {} THEN <<>>
       ELSE LET p == Min(P)
                k == Max({j \in 1..Len(s) : DigitsMatch(s, p, j)})
            IN <<SubSeq(s, 1, p - 1), SubSeq(s, p, p + k - 1), From(s, p + k - 1)>>

\* os.path.splitext (genericpath._splitext): the extension starts at the
\* last dot after the last separator, unless only dots precede it there
splitext(p) ==
    LET sepIndex == RFind(p, Seps)
        dotIndex == RFind(p, {"."})
    IN IF dotIndex > sepIndex
          /\ \E i \in (sepIndex + 1)..(dotIndex - 1) : p[i] # "."
       THEN <<UpTo(p, dotIndex - 1), From(p, dotIndex - 1)>>
       ELSE <<p, <<>>>>

\* the digits found are written back without the increment of line 46
NextProposed_no_increment(s) ==
    LET fd == final_digits(s)
    IN IF fd # <<>>
       THEN fd[1] \o StrOf(IntOf(fd[2])) \o fd[3]
       ELSE LET se == splitext(s) IN se[1] \o <<" ", "1">> \o se[2]

\* one pass through the body of the while loop, lines 43-56
NextProposed(s) ==
    LET fd == final_digits(s)
    IN IF fd # <<>>
       THEN fd[1] \o StrOf(IntOf(fd[2]) + 1) \o fd[3]
       ELSE LET se == splitext(s) IN se[1] \o <<" ", "1">> \o se[2]

\* a renaming that is not checked again against the existing names
make_unique_string_once(existing, requested) ==
    IF requested \in existing THEN NextProposed(requested) ELSE requested

RECURSIVE make_unique_string(_, _)
make_unique_string(existing, requested) ==
    IF requested \in existing THEN make_unique_string(existing, NextProposed(requested))
    ELSE requested

----------------------------------------------------------------------------
(* The collision loop run one iteration at a time *)

NameChars == {"a", "1", "9", ".", " ", "/"}

RequestedNames == StringsUpTo(NameChars, MaxLen) \ {<<>>}

\* the first n candidates the loop tries for the name s
RECURSIVE Candidates(_, _)
Candidates(s, n) == IF n = 0 THEN {} ELSE {s} \cup Candidates(NextProposed(s), n - 1)

\* no call of translate_line yet
NoCall == [kind |-> "none", internal |-> <<>>, page |-> <<>>, img |-> <<>>,
           out |-> [raised |-> "", absolute |-> FALSE, target |-> <<>>,
                    display |-> <<>>, text |-> <<>>]]

\* the variables of the other parts of the program, at rest
MigrateIdle ==
    /\ obs_folders = {} /\ obs_files = {}
    /\ folder_i = 0 /\ copy_i = 0 /\ note_i = 0 /\ lines_left = 0
    /\ call = NoCall

\* no page with code blocks is being translated
FileIdle == lines = <<>> /\ line_i = -1 /\ passed = <<>>

\* no notebook is being mapped or migrated
MapAtRest ==
    /\ zim_folders = {} /\ zim_files = {} /\ zim_pages = {}
    /\ obs_dir = <<>> /\ ignore_extensions = {}
    /\ use_folder_notes = FALSE /\ use_global_attachments = FALSE
    /\ folder_map = <<>> /\ note_map = <<>> /\ file_map = <<>>
    /\ walk_stack = <<>> /\ walkroot = <<>> /\ files_todo = {}
    /\ MigrateIdle

MapIdle ==
    /\ FileIdle
    /\ MapAtRest
    /\ pc = "idle"

UniqueInit ==
    /\ MapIdle
    /\ requested_name \in RequestedNames
    /\ existing_names \in SUBSET (Candidates(requested_name, MaxExisting) \cup {<<"a">>})
    /\ proposed_filename = requested_name
    /\ tried = <<>>
    /\ upc = "loop"

\* line 42, condition true: lines 43-56
UniqueStep ==
    /\ upc = "loop"
    /\ proposed_filename \in existing_names
    /\ tried' = Append(tried, proposed_filename)
    /\ proposed_filename' = NextProposed(proposed_filename)
    /\ UNCHANGED <<existing_names, requested_name, upc>>
    /\ UNCHANGED <<zvars, avars, fvars, mvars, wvars, gvars, pc>>

\* line 42, condition false: line 57
UniqueReturn ==
    /\ upc = "loop"
    /\ proposed_filename \notin existing_names
    /\ upc' = "returned"
    /\ UNCHANGED <<existing_names, requested_name, proposed_filename, tried>>
    /\ UNCHANGED <<zvars, avars, fvars, mvars, wvars, gvars, pc>>

UniqueNext == UniqueStep \/ UniqueReturn

SpecUnique == UniqueInit /\ [][UniqueNext]_vars

\* the loop is sequential code that waits for nothing: it keeps running
SpecUniqueFair == SpecUnique /\ WF_vars(UniqueNext)

----------------------------------------------------------------------------
(* Paths *)

\* the root of a rooted path, the first of its parts
Anchor == <<"\\">>

Last(s) == s[Len(s)]
Front(s) == SubSeq(s, 1, Len(s) - 1)

\* the parts of the path written s: the pieces between separators, without
\* the empty ones and the "." ones, after the anchor when s starts with a
\* separator (pathlib's parsing)
RECURSIVE SplitOn(_, _, _)
SplitOn(s, piece, cs) ==
    IF s = <<>> THEN <<piece>>
    ELSE IF Head(s) \in cs THEN <<piece>> \o SplitOn(Tail(s), <<>>, cs)
    ELSE SplitOn(Tail(s), Append(piece, Head(s)), cs)

SplitSeps(s, piece) == SplitOn(s, piece, Seps)

Path(s) ==
    LET pieces == SelectSeq(SplitSeps(s, <<>>), LAMBDA x : x # <<>> /\ x # <<".">>)
    IN IF s # <<>> /\ Head(s) \in Seps THEN <<Anchor>> \o pieces ELSE pieces

\* str(path): the parts joined by the separator, the anchor written once
RECURSIVE JoinSep(_)
JoinSep(parts) ==
    IF parts = <<>> THEN <<>>
    ELSE IF Len(parts) = 1 THEN parts[1]
    ELSE parts[1] \o <<"\\">> \o JoinSep(Tail(parts))

str(path) ==
    IF path # <<>> /\ path[1] = Anchor THEN Anchor \o JoinSep(Tail(path))
    ELSE JoinSep(path)

\* base.joinpath(other): a rooted other replaces base
joinpath(base, other) ==
    IF other # <<>> /\ other[1] = Anchor THEN other ELSE base \o other

\* PurePath.suffix: from the last dot of the name, when that dot is neither
\* its first nor its last character
suffix(path) ==
    LET name == Last(path)
        i == RFind(name, {"."})
    IN IF 1 < i /\ i < Len(name) THEN From(name, i - 1) ELSE <<>>

\* PurePath.with_suffix, for a path that has a name
with_suffix(path, new) ==
    LET name == Last(path)
        old == suffix(path)
    IN Append(Front(path), UpTo(name, Len(name) - Len(old)) \o new)

IsPrefix(p, q) == Len(p) <= Len(q) /\ SubSeq(q, 1, Len(p)) = p

----------------------------------------------------------------------------
(* Dictionaries: sequences of entries [old |-> key, new |-> value] *)

Keys(m) == {m[i].old : i \in 1..Len(m)}
Values(m) == {m[i].new : i \in 1..Len(m)}
Get(m, k) == (CHOOSE i \in 1..Len(m) : m[i].old = k)
Lookup(m, k) == m[Get(m, k)].new
Put(m, k, v) ==
    IF k \in Keys(m) THEN [m EXCEPT ![Get(m, k)].new = v]
    ELSE Append(m, [old |-> k, new |-> v])

Perms(S) == {f \in [1..Cardinality(S) -> S] : \A i, j \in 1..Cardinality(S) : f[i] = f[j] => i = j}

----------------------------------------------------------------------------
(* map_zim_dir_to_obsidian_dir, zim2obs.py 68-130 *)

txt == <<".", "t", "x", "t">>
md == <<".", "m", "d">>
ini == <<".", "i", "n", "i">>
png == <<".", "p", "n", "g">>

zim_dir == <<Anchor, <<"z">>>>
global_attachments_relative_path == <<<<"a", "t", "t">>>>

\* compatible(path): the file's first two lines are the Zim header
compatible(c_filepath_old) ==
    \E rel \in zim_pages : c_filepath_old = zim_dir \o rel

\* the names os.walk lists for the directory relroot
FoldersIn(relroot) == {Last(d) : d \in {e \in zim_folders : Len(e) = Len(relroot) + 1 /\ IsPrefix(relroot, e)}}
FilesIn(relroot) == {Last(f) : f \in {e \in zim_files : Len(e) = Len(relroot) + 1 /\ IsPrefix(relroot, e)}}

\* lines 93-96, the folders in the order os.walk lists them
RECURSIVE PutFolders(_, _, _)
PutFolders(m, relroot, folders) ==
    IF folders = <<>> THEN m
    ELSE PutFolders(Put(m, joinpath(zim_dir, relroot \o Path(Head(folders))),
                           joinpath(obs_dir, relroot \o Path(Head(folders)))),
                    relroot, Tail(folders))

\* a page is never moved into the folder of its name
NoteDestination_mirrored(relroot, file) ==
    with_suffix(joinpath(obs_dir, relroot \o Path(file)), md)

\* lines 100-110: the destination of a page
NoteDestination(relroot, file) ==
    LET potential_folder_path == joinpath(obs_dir, relroot \o Path(splitext(file)[1]))
        c_filepath_new ==
            IF use_folder_notes /\ potential_folder_path \in Values(folder_map)
            THEN joinpath(potential_folder_path, Path(file))
            ELSE joinpath(obs_dir, relroot \o Path(file))
    IN with_suffix(c_filepath_new, md)

\* lines 116-128: the destination of another file
FileDestination(relroot, file) ==
    IF use_global_attachments
    THEN LET proposed_name == joinpath(obs_dir, global_attachments_relative_path \o Path(file))
         IN Path(make_unique_string({str(s) : s \in Values(file_map)}, str(proposed_name)))
    ELSE joinpath(obs_dir, relroot \o Path(file))

\* no extension is ignored
Classify_keep_all(relroot, file) ==
    LET c_filepath_old == joinpath(zim_dir, relroot \o Path(file))
    IN IF splitext(file)[2] = txt /\ compatible(c_filepath_old) THEN "note" ELSE "file"

\* lines 99, 114: which dictionary the file goes to
Classify(relroot, file) ==
    LET c_filepath_old == joinpath(zim_dir, relroot \o Path(file))
    IN IF splitext(file)[2] = txt /\ compatible(c_filepath_old) THEN "note"
       ELSE IF splitext(file)[2] \in ignore_extensions THEN "ignored"
       ELSE "file"

\* lines 86-96: os.walk yields the next directory, any of the siblings on top
\* of the stack, and its folders are recorded
WalkDir ==
    /\ pc = "walk"
    /\ files_todo = {}
    /\ walk_stack # <<>>
    /\ \E d \in Head(walk_stack) :
         /\ walkroot' = d
         /\ \E folders \in Perms(FoldersIn(d)) :
              folder_map' = PutFolders(folder_map, d, folders)
         /\ files_todo' = FilesIn(d)
         /\ LET rest == IF Head(walk_stack) = {d} THEN Tail(walk_stack)
                        ELSE <<Head(walk_stack) \ {d}>> \o Tail(walk_stack)
                subs == {e \in zim_folders : Len(e) = Len(d) + 1 /\ IsPrefix(d, e)}
            IN walk_stack' = IF subs = {} THEN rest ELSE <<subs>> \o rest
    /\ UNCHANGED <<note_map, file_map, pc, uvars, zvars, avars, fvars, gvars>>

\* lines 97-128: one file of the directory, in the order os.walk lists them
MapFile ==
    /\ pc = "walk"
    /\ \E file \in files_todo :
         LET c_filepath_old == joinpath(zim_dir, walkroot \o Path(file))
             class == Classify(walkroot, file)
         IN /\ files_todo' = files_todo \ {file}
            /\ note_map' = IF class = "note"
                           THEN Put(note_map, c_filepath_old, NoteDestination(walkroot, file))
                           ELSE note_map
            /\ file_map' = IF class = "file"
                           THEN Put(file_map, c_filepath_old, FileDestination(walkroot, file))
                           ELSE file_map
    /\ UNCHANGED <<folder_map, walk_stack, walkroot, pc, uvars, zvars, avars, fvars, gvars>>

\* the mapping returns before os.walk has yielded every directory
MapReturn_early ==
    /\ pc = "walk"
    /\ files_todo = {}
    /\ pc' = "mapped"
    /\ UNCHANGED <<uvars, zvars, avars, fvars, mvars, wvars, gvars>>

\* line 130
MapReturn ==
    /\ pc = "walk"
    /\ files_todo = {}
    /\ walk_stack = <<>>
    /\ pc' = "mapped"
    /\ UNCHANGED <<uvars, zvars, avars, fvars, mvars, wvars, gvars>>

----------------------------------------------------------------------------
(* The notebooks and arguments the mapping is run on *)

\* most files in a notebook
MaxFiles == 3

Dirs == {<<>>, <<<<"a">>>>, <<<<"b">>>>, <<<<"a">>, <<"a">>>>}
FileNames == {<<"a">> \o txt, <<"x">> \o png, <<"r">> \o ini, <<"a">> \o md}
AllFiles == {Append(d, n) : d \in Dirs, n \in FileNames}

ObsDirs == {<<Anchor, <<"o">>>>, <<Anchor, <<"v", "1", ".", "0">>, <<"o">>>>}
IgnoreSets == {{ini}, {txt}}

\* a notebook: every file and folder lies in a folder of the notebook
IsTree(folders, files) ==
    /\ \A d \in folders : Len(d) = 1 \/ Front(d) \in folders
    /\ \A f \in files : Len(f) = 1 \/ Front(f) \in folders

UniqueIdle ==
    /\ existing_names = {} /\ requested_name = <<>> /\ proposed_filename = <<>>
    /\ tried = <<>> /\ upc = "idle"

MapInit ==
    /\ UniqueIdle
    /\ FileIdle
    /\ zim_files \in {F \in SUBSET AllFiles : Cardinality(F) <= MaxFiles}
    /\ zim_folders \in {D \in SUBSET (Dirs \ {<<>>}) : IsTree(D, zim_files)}
    /\ zim_pages \in SUBSET {f \in zim_files : splitext(Last(f))[2] = txt}
    /\ obs_dir \in ObsDirs
    /\ ignore_extensions \in IgnoreSets
    /\ use_folder_notes \in BOOLEAN
    /\ use_global_attachments \in BOOLEAN
    /\ folder_map = <<>> /\ note_map = <<>> /\ file_map = <<>>
    /\ walk_stack = <<{<<>>}>> /\ walkroot = <<>> /\ files_todo = {}
    /\ MigrateIdle
    /\ pc = "walk"

MapNext == WalkDir \/ MapFile \/ MapReturn

SpecMap == MapInit /\ [][MapNext]_vars

----------------------------------------------------------------------------
(* More of Python's str *)

Contains(s, c) == \E i \in 1..Len(s) : s[i] = c

\* s.find(c) of Python: the 0-based index of the first c, -1 when absent
Find(s, c) ==
    LET P == {i \in 1..Len(s) : s[i] = c} IN IF P = {} THEN -1 ELSE Min(P) - 1

\* s.replace(old, new), old not empty: the occurrences from left to right
RECURSIVE Replace(_, _, _)
Replace(s, old, new) ==
    IF Len(s) < Len(old) THEN s
    ELSE IF StartsWith(s, old) THEN new \o Replace(From(s, Len(old)), old, new)
    ELSE <<Head(s)>> \o Replace(Tail(s), old, new)

\* s.split(c)
Split(s, c) == SplitOn(s, <<>>, {c})

\* os.path.split(s)[-1] (ntpath): what follows the last separator
OsTail(s) == From(s, RFind(s, Seps))

\* os.path.join(a, b) (ntpath), for b without separator
OsJoin(a, b) ==
    IF a = <<>> THEN b
    ELSE IF Last(a) \in Seps \cup {":"} THEN a \o b
    ELSE a \o <<"\\">> \o b

----------------------------------------------------------------------------
(* Python's float: a positive binary64 number is Precision binary digits  *)
(* m, the first of them 1, and the exponent e of that first digit: its    *)
(* value is the sum of m[i] * 2^(e - i + 1).  Division and multiplication *)
(* round the exact result to the nearest such number, ties to the even    *)
(* last digit; the numbers of lines 407-411 are far from the overflow and *)
(* underflow of the format.                                               *)

Precision == 53

\* the binary digits of the natural number n, most significant first
RECURSIVE Bin(_)
Bin(n) == IF n = 0 THEN <<>> ELSE Append(Bin(n \div 2), n % 2)

\* the natural number of the binary digits b
RECURSIVE BitsVal(_)
BitsVal(b) == IF b = <<>> THEN 0 ELSE 2 * BitsVal(Front(b)) + Last(b)

\* the next n binary digits of the fraction r/d, 0 <= r < d, and the
\* remainder left after them
\* (long division, the first half of the digits and then the second)
RECURSIVE FracBits(_, _, _)
FracBits(r, d, n) ==
    IF n = 0 THEN [bits |-> <<>>, rem |-> r]
    ELSE IF n = 1 THEN [bits |-> <<(2 * r) \div d>>, rem |-> (2 * r) % d]
    ELSE LET first == FracBits(r, d, n \div 2)
             second == FracBits(first.rem, d, n - n \div 2)
         IN [bits |-> first.bits \o second.bits, rem |-> second.rem]

\* the number of zero digits the fraction r/d, 0 < r < d, starts with
RECURSIVE LeadingZeros(_, _)
LeadingZeros(r, d) == IF 2 * r >= d THEN 0 ELSE 1 + LeadingZeros(2 * r, d)

\* one more in the last place of the digits b; a carry out of the first
\* place makes the result one digit longer
Inc(b) ==
    LET zeros == {i \in 1..Len(b) : b[i] = 0}
        k == IF zeros = {} THEN 0 ELSE Max(zeros)
    IN SubSeq(b, 1, k - 1) \o <<1>> \o [i \in 1..(Len(b) - k) |-> 0]

\* the float nearest to the number whose digits start with `digits` (the
\* first of exponent e) and go on with something non-zero iff sticky
RoundNearestEven(digits, sticky, e) ==
    LET keep == SubSeq(digits \o [i \in 1..Precision |-> 0], 1, Precision)
        guard == IF Len(digits) > Precision THEN digits[Precision + 1] ELSE 0
        rest == sticky \/ \E i \in (Precision + 2)..Len(digits) : digits[i] = 1
        inc == Inc(keep)
    IN IF guard = 1 /\ (rest \/ keep[Precision] = 1)
       THEN [m |-> SubSeq(inc, 1, Precision), e |-> e + Len(inc) - Precision]
       ELSE [m |-> keep, e |-> e]

\* a / b of two positive ints (long_true_divide: correctly rounded)
TrueDivide(a, b) ==
    LET whole == Bin(a \div b)
        z == LeadingZeros(a, b)
        f == IF whole # <<>> THEN FracBits(a % b, b, Precision + 1 - Len(whole))
             ELSE FracBits(a * 2^z, b, Precision + 1)
    IN IF whole # <<>> THEN RoundNearestEven(whole \o f.bits, f.rem # 0, Len(whole) - 1)
       ELSE RoundNearestEven(f.bits, f.rem # 0, 0 - z - 1)

\* as many digits of the product of the digits b by the natural number n,
\* plus the carry c coming in, and the carry going out (long
\* multiplication, the low half of the digits and then, once its carry is
\* known, the high half)
RECURSIVE MulPart(_, _, _)
MulPart(b, n, c) ==
    IF b = <<>> THEN [bits |-> <<>>, carry |-> c]
    ELSE IF Len(b) = 1 THEN [bits |-> <<(b[1] * n + c) % 2>>, carry |-> (b[1] * n + c) \div 2]
    ELSE LET h == Len(b) \div 2
             low == MulPart(SubSeq(b, h + 1, Len(b)), n, c)
             high == MulPart(SubSeq(b, 1, h), n, low.carry)
         IN CASE low.carry \in 0..n ->
                 [bits |-> high.bits \o low.bits, carry |-> high.carry]

\* all the digits of the product of the digits b by n
MulBits(b, n) == LET p == MulPart(b, n, 0) IN Bin(p.carry) \o p.bits

\* x * n of a float and a positive int (the int converts exactly)
Multiply(x, n) ==
    LET product == MulBits(x.m, n)
    IN RoundNearestEven(product, FALSE, x.e + Len(product) - Precision)

\* int(x): the digits before the point
Trunc(x) == IF x.e < 0 THEN 0 ELSE BitsVal(SubSeq(x.m, 1, x.e + 1))

\* int(a / b * n) of lines 408 and 411; a zero a gives 0.0 throughout
Scaled(a, b, n) == IF a = 0 THEN 0 ELSE Trunc(Multiply(TrueDivide(a, b), n))

----------------------------------------------------------------------------
(* translate_line: the hyperlink loop, zim2obs.py 270-350, on one token   *)
(* [[internal]]. The outcome holds the text that line 350 puts in place   *)
(* of the token; the emphasis, tag and list passes of lines 426-450 run   *)
(* on the finished line afterwards (a "__x__" left in it becomes "==x==") *)
(* and are outside the outcome.                                           *)

wp == <<"w", "p", "?">>
wikipedia == <<"h", "t", "t", "p", "s", ":", "/", "/", "w", "i", "k", "i", "p", "e", "d",
               "i", "a", ".", "o", "r", "g", "/", "w", "i", "k", "i", "/">>
http == <<"h", "t", "t", "p">>
file_url == <<"f", "i", "l", "e", ":", "/", "/", "/">>
dot_slash == <<".", "/">>
dot_backslash == <<".", "\\">>

\* a path has a name unless it is empty or a bare root
HasName(path) == path # <<>> /\ Last(path) # Anchor

\* Path.is_dir(): the file system holds the notebook under zim_dir, and
\* the directories above it
is_dir(path) ==
    \/ \E d \in zim_folders \cup {<<>>} : path = zim_dir \o d
    \/ (path # <<>> /\ IsPrefix(path, zim_dir))

\* zim_filepath_to_titlepath, lines 144-154, of the page zim_dir/old_rel
zim_filepath_to_titlepath(old_rel) ==
    Replace(splitext(str(old_rel))[1], <<"_">>, <<" ">>)

\* the outcome of one token: the exception raised ("" for none), the
\* locals absolute, target and display, and the text put in its place
Outcome(raised, absolute, target, display, text) ==
    [raised |-> raised, absolute |-> absolute, target |-> target,
     display |-> display, text |-> text]

\* lines 276-279
LinkParts(internal) ==
    IF Contains(internal, "|") THEN Split(internal, "|") ELSE <<internal, internal>>

\* lines 282-286: [1] target, [2] display
LinkWikipedia(td) ==
    IF StartsWith(td[1], wp)
    THEN <<Replace(Replace(td[1], wp, wikipedia), <<" ">>, <<"_">>), From(td[1], 3)>>
    ELSE td

\* lines 320-324
LinkNamespace(target, page_path) ==
    LET t1 == IF StartsWith(target, <<"+">>) THEN page_path \o <<":">> \o From(target, 1)
              ELSE target
        t2 == IF StartsWith(t1, <<":">>) THEN From(t1, Find(From(t1, 1), ":") + 2)
              ELSE t1
    IN Replace(t2, <<":">>, <<"\\">>)

\* lines 302-314, and 384-398 with the page's folder for page_path: the
\* attachment beside the page, relative to where attachments go
DotTarget(folder, target) ==
    LET zim_abs_path == joinpath(joinpath(zim_dir, folder), Path(target))
        obs_abs_path == Lookup(file_map, zim_abs_path)
        base == IF use_global_attachments
                THEN joinpath(obs_dir, global_attachments_relative_path)
                ELSE obs_dir
    IN IF zim_abs_path \notin Keys(file_map) THEN [raised |-> "KeyError", target |-> target]
       ELSE IF ~IsPrefix(base, obs_abs_path) THEN [raised |-> "ValueError", target |-> target]
       ELSE [raised |-> "", target |-> str(From(obs_abs_path, Len(base)))]

\* lines 290-324: the classification of the target
LinkClassify(target, display, old_rel) ==
    LET page_path == zim_filepath_to_titlepath(old_rel)
    IN IF StartsWith(target, http)
       THEN Outcome("", FALSE, target, display, <<>>)
       ELSE IF StartsWith(target, file_url)
       THEN IF IsPrefix(zim_dir, Path(From(target, 8)))
            THEN Outcome("Exception", FALSE, From(target, 8), display, <<>>)
            ELSE Outcome("", TRUE, From(target, 8), display, <<>>)
       ELSE IF StartsWith(target, dot_slash) \/ StartsWith(target, dot_backslash)
       THEN LET d == IF StartsWith(display, dot_slash) \/ StartsWith(display, dot_backslash)
                     THEN From(display, 2) ELSE display
                r == DotTarget(Path(page_path), From(target, 2))
            IN Outcome(r.raised, FALSE, r.target, d, <<>>)
       ELSE Outcome("", FALSE, LinkNamespace(target, page_path), display, <<>>)

\* lines 327-328
FolderNote(target) ==
    IF use_folder_notes /\ is_dir(joinpath(zim_dir, Path(target)))
    THEN OsJoin(target, OsTail(target))
    ELSE target

InNoteMap(target) == with_suffix(joinpath(zim_dir, Path(target)), txt) \in Keys(note_map)

\* the underscored spelling is taken whether or not it names a page
Underscore_always(target) == Replace(target, <<" ">>, <<"_">>)

\* lines 331-334
Underscore(target) ==
    LET under_target == Replace(target, <<" ">>, <<"_">>)
    IN IF ~InNoteMap(target) /\ InNoteMap(under_target) THEN under_target ELSE target

Labeled(display, target) ==
    IF Contains(target, " ")
    THEN <<"[">> \o display \o <<"]", "(", "<">> \o target \o <<">", ")">>
    ELSE <<"[">> \o display \o <<"]", "(">> \o target \o <<")">>

Bare(target) == <<"[", "[">> \o target \o <<"]", "]">>

\* lines 344-350
Render(target, display, absolute) ==
    IF target # display \/ absolute THEN Labeled(display, target) ELSE Bare(target)

\* lines 273-350
TranslateLink(internal, old_rel) ==
    IF Len(Split(internal, "|")) > 2
    THEN Outcome("ValueError", FALSE, <<>>, <<>>, <<>>)
    ELSE LET td == LinkWikipedia(LinkParts(internal))
             c == LinkClassify(td[1], td[2], old_rel)
             t1 == FolderNote(c.target)
         IN IF c.raised # "" THEN c
            ELSE IF ~HasName(joinpath(zim_dir, Path(t1)))
            THEN Outcome("ValueError", c.absolute, t1, c.display, <<>>)
            ELSE LET t2 == Replace(Underscore(t1), <<"\\">>, <<"/">>)
                 IN Outcome("", c.absolute, t2, c.display, Render(t2, c.display, c.absolute))

width == <<"w", "i", "d", "t", "h">>
height == <<"h", "e", "i", "g", "h", "t">>

\* int(s) accepts s: a run of decimal digits (the signs, blanks and
\* underscores int also accepts are not written in the options here)
IsNumber(s) == s # <<>> /\ \A i \in 1..Len(s) : IsDigit(s[i])

\* line 401, the list handed to dict(): every option splits in two at "="
PairsOnly(items) == \A i \in 1..Len(items) : Len(Split(items[i], "=")) = 2

\* line 401, dict() of the pairs: a key keeps the place of its first
\* occurrence and the value of its last
RECURSIVE options_dict(_)
options_dict(items) ==
    IF items = <<>> THEN <<>>
    ELSE LET pair == Split(Last(items), "=")
         IN Put(options_dict(Front(items)), pair[1], pair[2])

\* lines 403-414, one key of the dictionary: what is appended to target.
\* img is img.size, <<width, height>>, or <<>> when Image.open raises (no
\* such image); int() raises for a value that is no number; either
\* exception is caught at line 413
SizeSuffix(option, img) ==
    IF option.old \notin {height, width} \/ img = <<>> \/ ~IsNumber(option.new)
    THEN <<>>
    ELSE LET value == IntOf(option.new)
             x_width == IF option.old = height THEN Scaled(value, img[2], img[1])
                        ELSE value
             x_height == IF option.old = height THEN value
                         ELSE Scaled(value, img[1], img[2])
         IN <<"|">> \o StrOf(x_width) \o <<"x">> \o StrOf(x_height)

\* lines 402-419, the loop over the dictionary
RECURSIVE SizeSuffixes(_, _)
SizeSuffixes(dict, img) ==
    IF dict = <<>> THEN <<>>
    ELSE SizeSuffix(Head(dict), img) \o SizeSuffixes(Tail(dict), img)

\* lines 356-424, the file object loop on one token {{internal}}; img is
\* what Image.open finds at the referenced path
TranslateEmbed(internal, old_rel, img) ==
    IF Len(Split(internal, "?")) > 2
    THEN Outcome("ValueError", FALSE, <<>>, <<>>, <<>>)
    ELSE LET target == Split(internal, "?")[1]
             options == IF Contains(internal, "?") THEN Split(internal, "?")[2] ELSE <<>>
             items == Split(options, "&")
             is_file == StartsWith(target, file_url)
             t1 == IF is_file THEN From(target, 8) ELSE target
             is_dot == StartsWith(t1, dot_backslash) \/ StartsWith(t1, dot_slash)
             r == DotTarget(with_suffix(old_rel, <<>>), From(t1, 2))
             sized == IF options = <<>> THEN <<>>
                      ELSE SizeSuffixes(options_dict(items), img)
         IN IF is_file /\ IsPrefix(zim_dir, Path(t1))
            THEN Outcome("Exception", FALSE, t1, <<>>, <<>>)
            ELSE IF is_dot /\ r.raised # ""
            THEN Outcome(r.raised, FALSE, r.target, <<>>, <<>>)
            ELSE IF options # <<>> /\ ~PairsOnly(items)
            THEN Outcome("ValueError", FALSE, t1, <<>>, <<>>)
            \* zim_abs_path is assigned at lines 382 and 389 only: without
            \* them line 404 raises, and so does the handler's line 414
            ELSE IF ~is_file /\ ~is_dot /\ options # <<>>
                    /\ Keys(options_dict(items)) \cap {height, width} # {}
            THEN Outcome("UnboundLocalError", FALSE, t1, <<>>, <<>>)
            ELSE IF is_dot
            THEN Outcome("", FALSE, r.target \o sized, <<>>,
                         <<"!", "[", "[">> \o r.target \o sized \o <<"]", "]">>)
            ELSE IF is_file
            THEN Outcome("", TRUE, t1 \o sized, <<>>,
                         <<"!", "[", "]", "(">> \o file_url \o t1 \o sized \o <<")">>)
            ELSE Outcome("", FALSE, t1 \o sized, <<>>,
                         <<"!", "[", "[">> \o t1 \o sized \o <<"]", "]">>)

\* translate_line on a line that is one token: the replacement made by the
\* hyperlink loop (line 350) or by the embed loop (line 424)
translate_line(kind, internal, old_rel, img) ==
    IF kind = "link" THEN TranslateLink(internal, old_rel)
    ELSE TranslateEmbed(internal, old_rel, img)

\* lines 270-272, re.findall on a line that holds at most one "[[": the
\* text before the token, the text between its brackets (two characters or
\* more, up to the first "]]") and the text after it; <<>> without a token
LinkToken(line) ==
    LET opens == {k \in 1..(Len(line) - 1) : line[k] = "[" /\ line[k + 1] = "["}
        o == Min(opens)
        closes == {k \in (o + 4)..(Len(line) - 1) : line[k] = "]" /\ line[k + 1] = "]"}
        c == Min(closes)
    IN IF opens = {} THEN <<>>
       ELSE IF closes = {} THEN <<>>
       ELSE <<SubSeq(line, 1, o - 1), SubSeq(line, o + 2, c - 1), From(line, c + 1)>>

\* translate_line on a whole line without "{{" (lines 270-350): the token
\* the line holds, if any, is replaced where it stands
Retranslate(line, old_rel) ==
    LET token == LinkToken(line)
        r == TranslateLink(token[2], old_rel)
    IN IF token = <<>> THEN Outcome("", FALSE, <<>>, <<>>, line)
       ELSE IF r.raised # "" THEN r
       ELSE [r EXCEPT !.text = token[1] \o r.text \o token[3]]

----------------------------------------------------------------------------
(* migrate_zim_to_obsidian, zim2obs.py 470-522 *)

\* most lines of a page after its four header lines
MaxLines == 1
\* longest link target written by hand
MaxTarget == 3

LinkChars == {"a", " ", "_", ":", "+"}

PlainTargets == {t \in StringsUpTo(LinkChars, MaxTarget) : Len(t) >= 2}

SpecialTargets ==
    {http \o r : r \in {<<":", "/", "/", "a">>, <<"s", ":", "/", "/", "a", " ", "a">>}}
    \cup {file_url \o r : r \in {<<"\\", "z", "\\", "a">>, <<"\\", "z">>,
                                 <<"\\", "q", "\\", "a">>, <<"q">>}}
    \cup {<<".", "/", "i">> \o png, <<".", "\\", "i">> \o png, <<".", "/", "n">> \o png}
    \cup {wp \o r : r \in {<<"a">>, <<"a", " ", "a">>}}

Labels == {<<"a", " ", "a">>}

\* the text between the brackets of a link: at least two characters
\* (the regular expression of line 271), a target and maybe a label
LinkTokens ==
    LET T == PlainTargets \cup SpecialTargets
    IN T \cup {t \o <<"|">> \o l : t \in T, l \in Labels}

\* the option strings written after "?"
Options ==
    {width \o <<"=", "1", "0", "0">>, height \o <<"=", "1", "0", "0">>,
     width \o <<"=", "7">>, height \o <<"=", "7">>,
     width \o <<"=", "1", "0", "0", "&">> \o height \o <<"=", "7">>,
     width \o <<"=", "a">>, width, <<"t", "y", "p", "e", "=", "a">>, <<>>}

EmbedTokens ==
    {file_url \o r : r \in {<<"\\", "z", "\\", "a", "\\", "i">> \o png,
                            <<"\\", "q", "\\", "i">> \o png,
                            <<".", "/", "i">> \o png, <<".", "/", "n">> \o png}}
    \cup {<<".", "/", "i">> \o png, <<".", "\\", "i">> \o png, <<".", "/", "n">> \o png,
          <<"i">> \o png}
    \cup {<<".", "/", "i">> \o png \o <<"?">> \o o : o \in Options}
    \cup {t \o <<"?">> \o width \o <<"=", "7">> :
             t \in {<<"i">> \o png, file_url \o <<"\\", "q", "\\", "i">> \o png}}

\* img.size of the images embedded, width and height in pixels
ImageSizes == {<<200, 100>>, <<780, 390>>, <<5, 45>>}

\* line 404: Image.open is reached for a token with a width or height key
ReadsImage(kind, internal) ==
    /\ kind = "embed"
    /\ Len(Split(internal, "?")) = 2
    /\ LET items == Split(Split(internal, "?")[2], "&")
       IN /\ Split(internal, "?")[2] # <<>>
          /\ PairsOnly(items)
          /\ \E i \in 1..Len(items) : Split(items[i], "=")[1] \in {width, height}

\* a directory exists in the vault when it was made, or is obs_dir or above
DirExists(path) == path \in obs_folders \/ (path # <<>> /\ IsPrefix(path, obs_dir))

\* path and its parents, as os.makedirs makes them
Parents(path) == {SubSeq(path, 1, n) : n \in 1..Len(path)}

\* writing the file dest with the content that comes from src
WriteFile(dest, src) == {w \in obs_files : w[1] # dest} \cup {<<dest, src>>}

\* lines 487-492: the three dictionaries are dumped, for inspection
DumpMaps ==
    /\ pc = "mapped"
    /\ pc' = "folders"
    /\ UNCHANGED <<uvars, zvars, avars, fvars, mvars, wvars, gvars>>

\* lines 495-497, one folder
MakeFolder ==
    /\ pc = "folders"
    /\ folder_i < Len(folder_map)
    /\ folder_i' = folder_i + 1
    /\ obs_folders' = obs_folders \cup Parents(folder_map[folder_i + 1].new)
    /\ UNCHANGED <<obs_files, copy_i, note_i, lines_left, call, pc>>
    /\ UNCHANGED <<uvars, zvars, avars, fvars, mvars, wvars>>

\* lines 500-501
StartCopy ==
    /\ pc = "folders"
    /\ folder_i = Len(folder_map)
    /\ obs_folders' = IF use_global_attachments
                      THEN obs_folders
                           \cup Parents(joinpath(obs_dir, global_attachments_relative_path))
                      ELSE obs_folders
    /\ pc' = "copy"
    /\ UNCHANGED <<obs_files, folder_i, copy_i, note_i, lines_left, call>>
    /\ UNCHANGED <<uvars, zvars, avars, fvars, mvars, wvars>>

\* lines 502-503, one file: shutil.copy raises when the directory is missing
CopyFile ==
    /\ pc = "copy"
    /\ copy_i < Len(file_map)
    /\ LET e == file_map[copy_i + 1]
       IN IF DirExists(Front(e.new))
          THEN /\ obs_files' = WriteFile(e.new, e.old)
               /\ copy_i' = copy_i + 1
               /\ pc' = pc
          ELSE /\ pc' = "aborted"
               /\ UNCHANGED <<obs_files, copy_i>>
    /\ UNCHANGED <<obs_folders, folder_i, note_i, lines_left, call>>
    /\ UNCHANGED <<uvars, zvars, avars, fvars, mvars, wvars>>

\* line 506: the loop over the pages starts, or goes on to the next page
NextPage ==
    /\ \/ pc = "copy" /\ copy_i = Len(file_map)
       \/ pc = "written"
    /\ pc' = IF note_i < Len(note_map) THEN "read" ELSE "done"
    /\ UNCHANGED <<uvars, zvars, avars, fvars, mvars, wvars, gvars>>

\* lines 169-179: translate_file reads the page, n lines after the header;
\* lines[0] raises when there is none; a first line that repeats the title
\* is dropped
ReadPage ==
    /\ pc = "read"
    /\ \E n \in 0..MaxLines, title \in BOOLEAN :
         IF n = 0
         THEN pc' = "aborted" /\ lines_left' = 0
         ELSE pc' = "lines" /\ lines_left' = (IF title THEN n - 1 ELSE n)
    /\ UNCHANGED <<obs_folders, obs_files, folder_i, copy_i, note_i, call>>
    /\ UNCHANGED <<uvars, zvars, avars, fvars, mvars, wvars>>

\* lines 181-217, one line of the page: translate_line, whose exception
\* leaves translate_file and migrate_zim_to_obsidian (lines 218-220)
TranslateLine ==
    /\ pc = "lines"
    /\ lines_left > 0
    /\ \E kind \in {"link", "embed"} :
       \E internal \in (IF kind = "link" THEN LinkTokens ELSE EmbedTokens) :
       \E img \in (IF ReadsImage(kind, internal) THEN ImageSizes \cup {<<>>} ELSE {<<>>}) :
         LET old_rel == From(note_map[note_i + 1].old, Len(zim_dir))
             out == translate_line(kind, internal, old_rel, img)
         IN /\ call' = [kind |-> kind, internal |-> internal, page |-> old_rel,
                        img |-> img, out |-> out]
            /\ pc' = IF out.raised # "" THEN "aborted" ELSE "translated"
    /\ UNCHANGED <<obs_folders, obs_files, folder_i, copy_i, note_i, lines_left>>
    /\ UNCHANGED <<uvars, zvars, avars, fvars, mvars, wvars>>

\* line 221: the translated line replaces the line, the loop goes on
StoreLine ==
    /\ pc = "translated"
    /\ lines_left' = lines_left - 1
    /\ call' = NoCall
    /\ pc' = "lines"
    /\ UNCHANGED <<obs_folders, obs_files, folder_i, copy_i, note_i>>
    /\ UNCHANGED <<uvars, zvars, avars, fvars, mvars, wvars>>

\* lines 519-520: the translated page is written; open raises when the
\* directory is missing
WritePage ==
    /\ pc = "lines"
    /\ lines_left = 0
    /\ LET e == note_map[note_i + 1]
       IN IF DirExists(Front(e.new))
          THEN /\ obs_files' = WriteFile(e.new, e.old)
               /\ note_i' = note_i + 1
               /\ pc' = "written"
          ELSE /\ pc' = "aborted"
               /\ UNCHANGED <<obs_files, note_i>>
    /\ UNCHANGED <<obs_folders, folder_i, copy_i, lines_left, call>>
    /\ UNCHANGED <<uvars, zvars, avars, fvars, mvars, wvars>>

MigrateFiles ==
    {<<<<"a">> \o txt>>, <<<<"a", "_", "a">> \o txt>>, <<<<"a">>, <<"a">> \o txt>>,
     <<<<"a">>, <<"i">> \o png>>}

\* the notebooks the migration is run on: the folder a, the page a.txt and
\* any of the other files, every ".txt" file a page
MigrateInit ==
    /\ UniqueIdle
    /\ FileIdle
    /\ zim_folders = {<<<<"a">>>>}
    /\ zim_files \in {F \in SUBSET MigrateFiles : <<<<"a">> \o txt>> \in F}
    /\ zim_pages = {f \in zim_files : splitext(Last(f))[2] = txt}
    /\ obs_dir = <<Anchor, <<"o">>>>
    /\ ignore_extensions = {ini}
    /\ use_folder_notes \in BOOLEAN
    /\ use_global_attachments \in BOOLEAN
    /\ folder_map = <<>> /\ note_map = <<>> /\ file_map = <<>>
    /\ walk_stack = <<{<<>>}>> /\ walkroot = <<>> /\ files_todo = {}
    /\ MigrateIdle
    /\ pc = "walk"

MigrateNext ==
    \/ WalkDir \/ MapFile \/ MapReturn
    \/ DumpMaps \/ MakeFolder \/ StartCopy \/ CopyFile
    \/ NextPage \/ ReadPage \/ TranslateLine \/ StoreLine \/ WritePage

SpecMigrate == MigrateInit /\ [][MigrateNext]_vars

----------------------------------------------------------------------------
(* translate_file, zim2obs.py 181-223: the loop over the lines of a page  *)
(* that has code blocks.  A line is what it starts with ("open" for       *)
(* "{{{code:", "close" for "}}}", "text" for anything else) and what the  *)
(* list holds for it now: the line as read ("raw"), a markdown fence      *)
(* ("fence") or what translate_line returned ("translated").              *)
(* translate_line is a call that returns or raises.                       *)

\* most lines of a page with code blocks
MaxBody == 4

LineKinds == {"text", "open", "close"}

\* the pages: lines after the header and the title (lines 173-179)
Bodies == UNION {[1..n -> LineKinds] : n \in 0..MaxBody}

FileInit ==
    /\ UniqueIdle
    /\ MapAtRest
    /\ \E body \in Bodies :
         lines = [k \in 1..Len(body) |-> [kind |-> body[k], now |-> "raw"]]
    /\ line_i = -1
    /\ passed = <<>>
    /\ pc = "file"

\* lines 183-184: the place in lines of lines[i] after i += 1
Current == line_i + 2

\* lines 186-203: the line starts a code block; the search of lines 197-200
\* runs to the first line that starts with "}}}" and raises IndexError at
\* the end of the list; line 202 moves i past the closing line and line
\* 203 goes back to the test of the loop
FenceLine ==
    /\ pc = "file"
    /\ line_i < Len(lines) - 1
    /\ lines[Current].kind = "open"
    /\ LET closes == {k \in (Current + 1)..Len(lines) : lines[k].kind = "close"}
       IN IF closes = {}
          THEN /\ lines' = [lines EXCEPT ![Current].now = "fence"]
               /\ line_i' = line_i + 1
               /\ pc' = "aborted"
          ELSE /\ lines' = [lines EXCEPT ![Current].now = "fence",
                                         ![Min(closes)].now = "fence"]
               /\ line_i' = Min(closes)
               /\ pc' = pc
    /\ UNCHANGED <<passed, uvars, zvars, avars, mvars, wvars, gvars>>

\* lines 204-221: any other line goes to translate_line, whose exception
\* leaves translate_file
GeneralLine ==
    /\ pc = "file"
    /\ line_i < Len(lines) - 1
    /\ lines[Current].kind # "open"
    /\ passed' = Append(passed, Current)
    /\ line_i' = line_i + 1
    /\ \E raises \in BOOLEAN :
         IF raises THEN pc' = "aborted" /\ lines' = lines
         ELSE pc' = pc /\ lines' = [lines EXCEPT ![Current].now = "translated"]
    /\ UNCHANGED <<uvars, zvars, avars, mvars, wvars, gvars>>

\* lines 182 and 223: the loop is over
FileReturn ==
    /\ pc = "file"
    /\ line_i >= Len(lines) - 1
    /\ pc' = "returned"
    /\ UNCHANGED <<uvars, zvars, avars, mvars, wvars, gvars, fvars>>

FileNext == FenceLine \/ GeneralLine \/ FileReturn

SpecFile == FileInit /\ [][FileNext]_vars

----------------------------------------------------------------------------
(* C1: make_unique_string returns a name that is not in existing_names,   *)
(* and returns requested_name itself when that is not in existing_names.  *)
C1_Unique ==
    upc = "returned" =>
        LET returned == make_unique_string(existing_names, requested_name)
        IN /\ returned \notin existing_names
           /\ (requested_name \notin existing_names => returned = requested_name)
           /\ proposed_filename = returned

C1_Witness ==
    /\ upc = "returned"
    /\ Len(tried) >= 2
    /\ final_digits(requested_name) = <<>>

----------------------------------------------------------------------------
(* Claims about the mapping *)

Injective(m) == \A i, j \in 1..Len(m) : m[i].new = m[j].new => i = j

(* C2: when map_zim_dir_to_obsidian_dir returns, no two source paths of   *)
(* the same dictionary (folders, pages, attachments) have the same        *)
(* destination.                                                           *)
C2_Injective ==
    pc = "mapped" => Injective(folder_map) /\ Injective(note_map) /\ Injective(file_map)

\* the name of a page file without its ".txt"
BaseName(name) == UpTo(name, Len(name) - Len(txt))

SiblingFolders(P) == {F \in zim_folders : Front(F) = Front(P) /\ Last(F) = BaseName(Last(P))}

(* C3: with folder notes, a page P that has a folder F of its base name   *)
(* beside it goes to folder_map[F] joined with F's name plus ".md"; a     *)
(* page without such a folder goes to its own place under obs_dir, its    *)
(* extension rewritten to ".md".                                          *)
C3_FolderNote ==
    (pc = "mapped" /\ use_folder_notes) =>
        \A P \in zim_pages :
            /\ zim_dir \o P \in Keys(note_map)
            /\ \A F \in SiblingFolders(P) :
                  Lookup(note_map, zim_dir \o P)
                      = Append(Lookup(folder_map, zim_dir \o F), Last(F) \o md)
            /\ SiblingFolders(P) = {} =>
                  Lookup(note_map, zim_dir \o P)
                      = obs_dir \o Front(P) \o <<BaseName(Last(P)) \o md>>

C3_Witness ==
    /\ pc = "mapped" /\ use_folder_notes
    /\ \E P \in zim_pages : Len(P) = 2 /\ SiblingFolders(P) # {}
    /\ \E P \in zim_pages : SiblingFolders(P) = {}

\* the code points of the characters file names are made of
Ord(c) ==
    CASE c = " " -> 32 [] c = "." -> 46 [] c = "/" -> 47 [] c = "\\" -> 92
      [] IsDigit(c) -> 48 + DigitVal(c)
      [] c = "a" -> 97 [] c = "b" -> 98 [] c = "d" -> 100 [] c = "g" -> 103
      [] c = "i" -> 105 [] c = "m" -> 109 [] c = "n" -> 110 [] c = "o" -> 111
      [] c = "p" -> 112 [] c = "r" -> 114 [] c = "t" -> 116 [] c = "v" -> 118
      [] c = "x" -> 120 [] c = "z" -> 122

\* s < t of Python strings
RECURSIVE StrLess(_, _)
StrLess(s, t) ==
    IF t = <<>> THEN FALSE
    ELSE IF s = <<>> THEN TRUE
    ELSE IF Head(s) = Head(t) THEN StrLess(Tail(s), Tail(t))
    ELSE Ord(Head(s)) < Ord(Head(t))

\* name.ext, name 1.ext, name 2.ext, ...
Suffixed(name, k) ==
    IF k = 0 THEN name
    ELSE splitext(name)[1] \o <<" ">> \o StrOf(k) \o splitext(name)[2]

(* C4: with global attachments, the attachments of one file name get the  *)
(* destinations name.ext, name 1.ext, name 2.ext, ... in the              *)
(* lexicographic order of their source paths, whatever order os.walk      *)
(* lists the entries in.                                                  *)
C4_LexicographicSuffixes ==
    (pc = "mapped" /\ use_global_attachments) =>
        \A k \in Keys(file_map) :
            LET before == {j \in Keys(file_map) :
                              Last(j) = Last(k) /\ StrLess(str(j), str(k))}
            IN Last(Lookup(file_map, k)) = Suffixed(Last(k), Cardinality(before))

(* C6: with global attachments, every destination of the attachment       *)
(* dictionary is a file directly inside                                    *)
(* obs_dir/global_attachments_relative_path: the renaming of              *)
(* make_unique_string changes the file name only.                         *)
C6_InAttachmentDir ==
    (pc = "mapped" /\ use_global_attachments) =>
        \A v \in Values(file_map) :
            Front(v) = joinpath(obs_dir, global_attachments_relative_path)

AllKeys == Keys(folder_map) \cup Keys(note_map) \cup Keys(file_map)

(* C7, as claimed: a file whose extension is in ignore_extensions is a    *)
(* key of none of the three dictionaries, whatever its content.           *)
C7_IgnoredAsClaimed ==
    pc = "mapped" =>
        \A f \in zim_files :
            splitext(Last(f))[2] \in ignore_extensions => zim_dir \o f \notin AllKeys

(* C7, amended: a file whose extension is in ignore_extensions and which  *)
(* is not a page (a ".txt" file with the Zim header) is a key of none of  *)
(* the three dictionaries.                                                *)
C7_IgnoredUnlessPage ==
    pc = "mapped" =>
        \A f \in zim_files \ zim_pages :
            splitext(Last(f))[2] \in ignore_extensions => zim_dir \o f \notin AllKeys

C7_Witness ==
    /\ pc = "mapped"
    /\ \E f \in zim_files \ zim_pages : splitext(Last(f))[2] \in ignore_extensions
    /\ \E f \in zim_files : splitext(Last(f))[2] \notin ignore_extensions

----------------------------------------------------------------------------
(* Claims about the migration and the resolution of tokens *)

\* every entry of the notebook that belongs in a dictionary is a key of it
MapsComplete ==
    /\ Keys(folder_map) = {zim_dir \o d : d \in zim_folders}
    /\ Keys(note_map) = {zim_dir \o f : f \in zim_pages}
    /\ Keys(file_map) = {zim_dir \o f : f \in {g \in zim_files \ zim_pages :
                                                splitext(Last(g))[2] \notin ignore_extensions}}

(* C5: whenever translate_line resolves a token, the mapping has returned *)
(* and the three dictionaries hold an entry for every source entry; and   *)
(* no step after the mapping (folders, copies, translation) changes a     *)
(* dictionary.                                                            *)
C5_MapsFrozen ==
    /\ [](call.kind # "none" => (pc # "walk" /\ MapsComplete))
    /\ [][pc # "walk" => mvars' = mvars]_vars

C5_Witness ==
    /\ call.kind # "none"
    /\ Len(note_map) >= 2
    /\ Len(file_map) >= 1
    /\ note_i >= 1

\* the target of the token of the call, as written
TokenTarget ==
    IF call.kind = "link" THEN LinkParts(call.internal)[1]
    ELSE Split(call.internal, "?")[1]

PageWritten(old_rel) == \E w \in obs_files : w[2] = zim_dir \o old_rel

(* C8: a link or embed token whose target is file:/// followed by a path  *)
(* inside zim_dir raises an error that ends the run: the page is not      *)
(* written and nothing more is done; followed by a path outside zim_dir,  *)
(* no error is raised and the token is classified absolute.               *)
C8_AbsoluteFile ==
    (call.kind # "none" /\ StartsWith(TokenTarget, file_url)) =>
        IF IsPrefix(zim_dir, Path(From(TokenTarget, 8)))
        THEN /\ call.out.raised # ""
             /\ pc = "aborted"
             /\ ~PageWritten(call.page)
             /\ ~ENABLED MigrateNext
        ELSE /\ call.out.raised = ""
             /\ call.out.absolute

\* the part of C8 that holds: the path inside zim_dir ends the run
AbsoluteInsideEndsRun ==
    (call.kind # "none" /\ StartsWith(TokenTarget, file_url)
        /\ IsPrefix(zim_dir, Path(From(TokenTarget, 8)))) =>
        /\ call.out.raised = "Exception"
        /\ pc = "aborted"
        /\ ~PageWritten(call.page)
        /\ ~ENABLED MigrateNext

\* the call resolves an internal link: one target, at most one label, no
\* wp?, http, file:/// or ./ in front
InternalLink ==
    /\ call.kind = "link"
    /\ Len(Split(call.internal, "|")) <= 2
    /\ \A m \in {wp, http, file_url, dot_slash, dot_backslash} : ~StartsWith(TokenTarget, m)

\* the normalized target of an internal link, lines 320-328
Normalized ==
    FolderNote(LinkNamespace(TokenTarget, zim_filepath_to_titlepath(call.page)))

\* the page map has the normalized target neither as written nor with
\* underscores for spaces
Unresolved ==
    /\ InternalLink
    /\ HasName(joinpath(zim_dir, Path(Normalized)))
    /\ ~InNoteMap(Normalized)
    /\ ~InNoteMap(Replace(Normalized, <<" ">>, <<"_">>))

C10_RenderingRule ==
    (call.kind = "link" /\ call.out.raised = "") =>
        LET o == call.out
            external == StartsWith(LinkWikipedia(LinkParts(call.internal))[1], http)
        IN o.text = IF o.display # o.target \/ external \/ o.absolute
                    THEN Labeled(o.display, o.target)
                    ELSE Bare(o.target)

\* the call resolves a link token [[+Rest]] without a label
SubPage ==
    /\ call.kind = "link"
    /\ StartsWith(call.internal, <<"+">>)
    /\ ~Contains(call.internal, "|")

(* C11: a link [[+Rest]] without a label, in the page of namespace path   *)
(* N, gets the target N:Rest, normalized to N/Rest, and is rendered as    *)
(* the bare reference [[N/Rest]].                                         *)
C11_SubPageBare ==
    (SubPage /\ call.out.raised = "") =>
        LET N == zim_filepath_to_titlepath(call.page)
            written == N \o <<":">> \o From(call.internal, 1)
            N_Rest == Replace(Replace(written, <<":">>, <<"/">>), <<"\\">>, <<"/">>)
        IN call.out.text = Bare(N_Rest)

(* C12: for a link whose target is wp?REST the target becomes the         *)
(* encyclopedia URL of REST with underscores for spaces; the label is     *)
(* REST when the token has no label, and the label of the token when it   *)
(* has one.                                                               *)
C12_WikipediaLabel ==
    (call.kind = "link" /\ StartsWith(TokenTarget, wp)
        /\ Len(Split(call.internal, "|")) <= 2) =>
        LET REST == From(TokenTarget, 3)
            url == wikipedia \o Replace(REST, <<" ">>, <<"_">>)
            label == IF Contains(call.internal, "|") THEN LinkParts(call.internal)[2]
                     ELSE REST
        IN /\ call.out.raised = ""
           /\ call.out.target = url
           /\ call.out.text = Labeled(label, url)

----------------------------------------------------------------------------
(* Claims about the collision loop *)

\* the integer an iteration on the candidate s writes into the next one:
\* the incremented digits (line 46) or the appended 1 (line 56)
Written(s) ==
    IF final_digits(s) # <<>> THEN IntOf(final_digits(s)[2]) + 1 ELSE 1

\* no candidate is tried twice, and no more candidates than existing names
TriedDistinct ==
    /\ \A i, j \in 1..Len(tried) : tried[i] = tried[j] => i = j
    /\ \A i \in 1..Len(tried) : tried[i] \in existing_names
    /\ Len(tried) <= Cardinality(existing_names)

\* each iteration writes a greater integer than the one before it
WrittenIncreases ==
    \A i \in 1..(Len(tried) - 1) : Written(tried[i]) < Written(tried[i + 1])

(* C13, as claimed: the collision loop returns, after at most as many     *)
(* iterations as there are existing names, every candidate differs from   *)
(* those tried before, and each iteration writes a strictly greater       *)
(* integer than the iteration before.                                     *)
C13_IntegerIncreases ==
    /\ [](TriedDistinct /\ WrittenIncreases)
    /\ <>(upc = "returned")

(* C13, amended: the collision loop returns, after at most as many        *)
(* iterations as there are existing names, and every candidate differs    *)
(* from those tried before; the integer written need not increase (a name *)
(* without a dot followed by a character gets one more " 1" each time).   *)
C13_Terminates ==
    /\ []TriedDistinct
    /\ <>(upc = "returned")

C13_Witness ==
    /\ upc = "returned"
    /\ Len(tried) = MaxExisting
    /\ Written(tried[1]) = Written(tried[2])
    /\ proposed_filename = NextProposed(tried[MaxExisting])

----------------------------------------------------------------------------
(* Claims about the options of an embed *)

\* the call resolves {{./file?key=value}} or {{.\file?key=value}} with the
\* one option key=value, value a number, the image found
OneSizeOption(key) ==
    /\ call.kind = "embed"
    /\ StartsWith(call.internal, dot_slash) \/ StartsWith(call.internal, dot_backslash)
    /\ Len(Split(call.internal, "?")) = 2
    /\ LET option == Split(Split(call.internal, "?")[2], "=")
       IN Len(option) = 2 /\ option[1] = key /\ IsNumber(option[2])
              /\ ~Contains(option[2], "&")
    /\ call.img # <<>>
    /\ call.out.raised = ""

\* the value of the one option, the image's natural width and height
OptionValue == IntOf(Split(Split(call.internal, "?")[2], "=")[2])
NaturalW == call.img[1]
NaturalH == call.img[2]

\* the target rendered without its options
PlainEmbed ==
    TranslateEmbed(Split(call.internal, "?")[1], call.page, <<>>).target

(* C14: a relative-dot embed with the single option width=w (height=h),   *)
(* its image readable and W x H pixels, is rendered with exactly one size *)
(* suffix: w x (w*H/W), respectively (h*W/H) x h, the computed dimension  *)
(* truncated to an integer.                                               *)
C14_AspectSuffix ==
    /\ OneSizeOption(width) =>
          call.out.text = <<"!", "[", "[">> \o PlainEmbed \o <<"|">> \o StrOf(OptionValue)
                              \o <<"x">> \o StrOf((OptionValue * NaturalH) \div NaturalW)
                              \o <<"]", "]">>
    /\ OneSizeOption(height) =>
          call.out.text = <<"!", "[", "[">> \o PlainEmbed \o <<"|">>
                              \o StrOf((OptionValue * NaturalW) \div NaturalH)
                              \o <<"x">> \o StrOf(OptionValue) \o <<"]", "]">>

(* C15: translate_line applied to a line of its own output gives that     *)
(* line back unchanged.                                                   *)
C15_Idempotent ==
    (call.kind # "none" /\ call.out.raised = "") =>
        LET again == Retranslate(call.out.text, call.page)
        IN again.raised = "" /\ again.text = call.out.text

----------------------------------------------------------------------------
(* Claims about translate_file *)

\* the fence regions of a page: for each line from the k-th on whether it
\* opens a region, lies inside one, closes it, or is outside every region
RECURSIVE Regions(_, _)
Regions(k, inside) ==
    IF k > Len(lines) THEN <<>>
    ELSE IF inside
    THEN IF lines[k].kind = "close" THEN <<"closing">> \o Regions(k + 1, FALSE)
         ELSE <<"inner">> \o Regions(k + 1, TRUE)
    ELSE IF lines[k].kind = "open" THEN <<"opening">> \o Regions(k + 1, TRUE)
         ELSE <<"outside">> \o Regions(k + 1, FALSE)

\* every region that is opened is closed
AllClosed ==
    Cardinality({k \in 1..Len(lines) : Regions(1, FALSE)[k] = "opening"})
        = Cardinality({k \in 1..Len(lines) : Regions(1, FALSE)[k] = "closing"})

(* C16: when translate_file returns for a page whose code fences are all  *)
(* closed, the lines outside the fence regions, the line after a closing  *)
(* fence included, have been passed to translate_line once each and in    *)
(* order; the opening and closing lines are markdown fences; the lines    *)
(* between them are as they were read.                                    *)
C16_FenceRegions ==
    (pc = "returned" /\ AllClosed) =>
        LET region == Regions(1, FALSE)
        IN /\ passed = SelectSeq([k \in 1..Len(lines) |-> k],
                                 LAMBDA k : region[k] = "outside")
           /\ \A k \in 1..Len(lines) :
                 /\ region[k] \in {"opening", "closing"} => lines[k].now = "fence"
                 /\ region[k] = "inner" => lines[k].now = "raw"
                 /\ region[k] = "outside" => lines[k].now = "translated"

----------------------------------------------------------------------------
(* Claims about the pages and the attachments together *)

\* the destinations of a dictionary
Destinations(m) == {m[i].new : i \in 1..Len(m)}

(* C17: when map_zim_dir_to_obsidian_dir returns, no destination is both  *)
(* a page's and an attachment's, and no two different source files, pages *)
(* or attachments, have the same destination, whatever the policies.      *)
C17_OneSourcePerDestination ==
    pc = "mapped" =>
        LET sent == note_map \o file_map
        IN /\ Destinations(note_map) \cap Destinations(file_map) = {}
           /\ \A i, j \in 1..Len(sent) :
                 sent[i].old # sent[j].old => sent[i].new # sent[j].new

====
